---------------------------- MODULE Spec2Model ----------------------------
(***************************************************************************)
(* A model of kilo.c (the last revision in src/kilo.c, lines 392-1022):    *)
(* the raw-mode lifecycle, the key decoder, the row store with its render  *)
(* form, the cursor and the viewport.                                      *)
(*                                                                         *)
(* Bytes are their ASCII codes, key events are the ints editorReadKey      *)
(* returns (a byte, or one of the editorKey codes from 1000 on).           *)
(***************************************************************************)
EXTENDS Integers, Sequences, FiniteSets, TLC

VARIABLES
    pc,          \* where the process is: main, init, open, refresh, keypress,
                 \* exiting, exited, killed, undefined
    E,           \* struct editorConfig E (cx, cy, rx, rowoff, coloff,
                 \* screenrows, screencols, numrows, row, filename,
                 \* statusmsg; a NULL filename and an empty statusmsg are
                 \* <<>>)
    termios,     \* the terminal's line discipline: "orig" or "raw"
    atexit,      \* whether disableRawMode is registered with atexit
    disabled,    \* how often disableRawMode has been invoked
    status,      \* the status passed to exit(), -1 before any exit
    cause,       \* why exit was first called: "none", "quit" or die's
                 \* argument
    pending,     \* bytes the terminal has delivered and read() has not taken
    c,           \* editorProcessKeypress's local c: the key it last decoded
    nwrite,      \* what the frame's write() returned: "none", "full",
                 \* "short", "error"
    reads,       \* whether read() was ever called on the terminal input
    typed,       \* the bytes delivered so far in a decoder run (history)
    written      \* the buffers handed to write() on the terminal, in order,
                 \* since the last key was read (before the first key:
                 \* since main entered its loop; before the loop: all)

vars == <<pc, E, termios, atexit, disabled, status, cause, pending, c,
          nwrite, reads, typed, written>>

-----------------------------------------------------------------------------
(* Bounds of the model *)

\* rows the user may grow the document to by typing on the past-end row
MaxRows == 2
\* row size up to which the user goes on typing into a row
MaxLen == 2
\* longest byte sequence of a decoder run
MaxSeq == 5
\* how far past the last row the cursor may be for the user to go on
MaxPast == 1
\* rows of a row store, and bytes of a row, when the row operations and
\* editorMoveCursor are called on their own
MaxStore == 2
MaxChars == 5
\* the widest window the status bar is drawn for
MaxCols == 40

-----------------------------------------------------------------------------
(* Bytes and keys *)

KILO_TAB_STOP == 4

ESC == 27
TAB == 9
LF == 10
CR == 13
SPACE == 32

CTRL_KEY(k) == k % 32

BACKSPACE == 127
ARROW_LEFT == 1000
ARROW_RIGHT == 1001
ARROW_UP == 1002
ARROW_DOWN == 1003
DEL_KEY == 1004
HOME_KEY == 1005
END_KEY == 1006
PAGE_UP == 1007
PAGE_DOWN == 1008

\* the local c of editorProcessKeypress before editorReadKey has returned:
\* not a byte and not a key
NoKey == -1

-----------------------------------------------------------------------------
(* Row operations *)

\* chars[j] as C reads it: the allocation ends with a NUL after size bytes
RowByte(chars, j) == IF j < Len(chars) THEN chars[j + 1] ELSE 0

RECURSIVE CxToRxLoop(_, _, _, _)
CxToRxLoop(chars, cx, j, rx) ==
    IF j < cx
    THEN LET rx1 == IF RowByte(chars, j) = TAB
                    THEN rx + (KILO_TAB_STOP - 1) - (rx % KILO_TAB_STOP)
                    ELSE rx
         IN  CxToRxLoop(chars, cx, j + 1, rx1 + 1)
    ELSE rx

RECURSIVE CxToRxFixedLoop(_, _, _, _)
CxToRxFixedLoop(chars, cx, j, rx) ==
    IF j < cx
    THEN CxToRxFixedLoop(chars, cx, j + 1,
                         IF RowByte(chars, j) = TAB
                         THEN rx + KILO_TAB_STOP
                         ELSE rx + 1)
    ELSE rx

RECURSIVE CxToRxAssignLoop(_, _, _, _)
CxToRxAssignLoop(chars, cx, j, rx) ==
    IF j < cx
    THEN LET rx1 == IF RowByte(chars, j) = TAB
                    THEN (KILO_TAB_STOP - 1) - (rx % KILO_TAB_STOP)
                    ELSE rx
         IN  CxToRxAssignLoop(chars, cx, j + 1, rx1 + 1)
    ELSE rx

\* editorRowCxToRx with rx = in place of rx += at a tab
editorRowCxToRx_assign(row, cx) == CxToRxAssignLoop(row.chars, cx, 0, 0)

\* editorRowCxToRx with every tab KILO_TAB_STOP columns wide
editorRowCxToRx_fixedtab(row, cx) == CxToRxFixedLoop(row.chars, cx, 0, 0)

\* for (j = 0; j < cx; j++) { if tab: rx += 3 - rx % 4; rx++ }
editorRowCxToRx(row, cx) == CxToRxLoop(row.chars, cx, 0, 0)

RECURSIVE PadToStop(_)
\* while (idx % KILO_TAB_STOP != 0) render[idx++] = ' '
PadToStop(render) ==
    IF Len(render) % KILO_TAB_STOP # 0
    THEN PadToStop(Append(render, SPACE))
    ELSE render

RECURSIVE UpdateRowLoop(_, _, _, _)
UpdateRowLoop(chars, size, j, render) ==
    IF j < size
    THEN IF chars[j + 1] = TAB
         THEN UpdateRowLoop(chars, size, j + 1,
                            PadToStop(Append(render, SPACE)))
         ELSE UpdateRowLoop(chars, size, j + 1, Append(render, chars[j + 1]))
    ELSE render

\* rebuilds render and rsize from chars (idx is the length of render)
editorUpdateRow(row) ==
    LET render == UpdateRowLoop(row.chars, row.size, 0, <<>>)
    IN  [row EXCEPT !.render = render, !.rsize = Len(render)]

\* E.row[numrows] = a row holding the first len bytes of s; numrows++
editorAppendRow(e, s, len) ==
    LET new == editorUpdateRow([size |-> len, rsize |-> 0,
                                chars |-> SubSeq(s, 1, len), render |-> <<>>])
    IN  [e EXCEPT !.row = Append(e.row, new), !.numrows = e.numrows + 1]

\* editorRowInsertChar with at clamped to 0 from below
editorRowInsertChar_clamp0(row, at0, ch) ==
    LET at == IF at0 < 0 THEN 0 ELSE IF at0 > row.size THEN row.size ELSE at0
        chars == SubSeq(row.chars, 1, at) \o <<ch>>
                 \o SubSeq(row.chars, at + 1, row.size)
    IN  editorUpdateRow([row EXCEPT !.chars = chars, !.size = row.size + 1])

\* editorRowInsertChar without its call of editorUpdateRow
editorRowInsertChar_stale(row, at0, ch) ==
    LET at == IF at0 < 0 \/ at0 > row.size THEN row.size ELSE at0
        chars == SubSeq(row.chars, 1, at) \o <<ch>>
                 \o SubSeq(row.chars, at + 1, row.size)
    IN  [row EXCEPT !.chars = chars, !.size = row.size + 1]

\* memmove of chars[at..size] one to the right, chars[at] = c, size++
editorRowInsertChar(row, at0, ch) ==
    LET at == IF at0 < 0 \/ at0 > row.size THEN row.size ELSE at0
        chars == SubSeq(row.chars, 1, at) \o <<ch>>
                 \o SubSeq(row.chars, at + 1, row.size)
    IN  editorUpdateRow([row EXCEPT !.chars = chars, !.size = row.size + 1])


-----------------------------------------------------------------------------
(* Editor operations *)

\* if (E.cy == E.numrows) editorAppendRow("", 0);
\* editorRowInsertChar(&E.row[E.cy], E.cx, c); E.cx++
\* (E.row[E.cy] with cy > numrows is outside the array: see InsertCharUB)
editorInsertChar(e, ch) ==
    LET e1 == IF e.cy = e.numrows THEN editorAppendRow(e, <<>>, 0) ELSE e
    IN  IF e1.cy >= 0 /\ e1.cy < e1.numrows
        THEN [e1 EXCEPT !.row[e1.cy + 1] =
                            editorRowInsertChar(e1.row[e1.cy + 1], e1.cx, ch),
                        !.cx = e1.cx + 1]
        ELSE e1

\* editorInsertChar indexes E.row outside the array
InsertCharUB(e) == e.cy > e.numrows \/ e.cy < 0

(* File i/o *)

RECURSIVE GetLines(_, _)
\* getline() until EOF: each line runs up to and including its newline
GetLines(bytes, line) ==
    IF bytes = <<>>
    THEN IF line = <<>> THEN <<>> ELSE <<line>>
    ELSE IF Head(bytes) = LF
         THEN <<Append(line, LF)>> \o GetLines(Tail(bytes), <<>>)
         ELSE GetLines(Tail(bytes), Append(line, Head(bytes)))

RECURSIVE StripLen(_, _)
\* while (linelen > 0 && (line[linelen-1] == '\n' || '\r')) linelen--
StripLen(line, linelen) ==
    IF linelen > 0 /\ (line[linelen] = LF \/ line[linelen] = CR)
    THEN StripLen(line, linelen - 1)
    ELSE linelen

RECURSIVE OpenLoop(_, _)
OpenLoop(e, lines) ==
    IF lines = <<>>
    THEN e
    ELSE OpenLoop(editorAppendRow(e, Head(lines),
                                  StripLen(Head(lines), Len(Head(lines)))),
                  Tail(lines))

\* E.filename = strdup(filename), and the rows editorOpen appends for a
\* file with these bytes
editorOpen(e, filename, bytes) ==
    OpenLoop([e EXCEPT !.filename = filename], GetLines(bytes, <<>>))

(* Output *)

\* editorScroll with the upward clamps one short: rowoff = cy - screenrows,
\* coloff = rx - screencols
editorScroll_offbyone(e) ==
    LET rx == IF e.cy >= 0 /\ e.cy < e.numrows
              THEN editorRowCxToRx(e.row[e.cy + 1], e.cx)
              ELSE 0
        rowoff1 == IF e.cy < e.rowoff THEN e.cy ELSE e.rowoff
        rowoff2 == IF e.cy >= rowoff1 + e.screenrows
                   THEN e.cy - e.screenrows
                   ELSE rowoff1
        coloff1 == IF rx < e.coloff THEN rx ELSE e.coloff
        coloff2 == IF rx >= coloff1 + e.screencols
                   THEN rx - e.screencols
                   ELSE coloff1
    IN  [e EXCEPT !.rx = rx, !.rowoff = rowoff2, !.coloff = coloff2]

\* editorScroll moving the window down to the row below the cursor
\* (cy + 1) instead of cy - screenrows + 1
editorScroll_below(e) ==
    LET rx == IF e.cy >= 0 /\ e.cy < e.numrows
              THEN editorRowCxToRx(e.row[e.cy + 1], e.cx)
              ELSE 0
        rowoff1 == IF e.cy < e.rowoff THEN e.cy ELSE e.rowoff
        rowoff2 == IF e.cy >= rowoff1 + e.screenrows
                   THEN e.cy + 1
                   ELSE rowoff1
        coloff1 == IF rx < e.coloff THEN rx ELSE e.coloff
        coloff2 == IF rx >= coloff1 + e.screencols
                   THEN rx - e.screencols + 1
                   ELSE coloff1
    IN  [e EXCEPT !.rx = rx, !.rowoff = rowoff2, !.coloff = coloff2]

\* editorScroll with rx recomputed after the offsets, which are set from
\* the rx of the frame before
editorScroll_rxlast(e) ==
    LET rx == IF e.cy >= 0 /\ e.cy < e.numrows
              THEN editorRowCxToRx(e.row[e.cy + 1], e.cx)
              ELSE 0
        rowoff1 == IF e.cy < e.rowoff THEN e.cy ELSE e.rowoff
        rowoff2 == IF e.cy >= rowoff1 + e.screenrows
                   THEN e.cy - e.screenrows + 1
                   ELSE rowoff1
        coloff1 == IF e.rx < e.coloff THEN e.rx ELSE e.coloff
        coloff2 == IF e.rx >= coloff1 + e.screencols
                   THEN e.rx - e.screencols + 1
                   ELSE coloff1
    IN  [e EXCEPT !.rx = rx, !.rowoff = rowoff2, !.coloff = coloff2]

editorScroll(e) ==
    LET rx == IF e.cy >= 0 /\ e.cy < e.numrows
              THEN editorRowCxToRx(e.row[e.cy + 1], e.cx)
              ELSE 0
        rowoff1 == IF e.cy < e.rowoff THEN e.cy ELSE e.rowoff
        rowoff2 == IF e.cy >= rowoff1 + e.screenrows
                   THEN e.cy - e.screenrows + 1
                   ELSE rowoff1
        coloff1 == IF rx < e.coloff THEN rx ELSE e.coloff
        coloff2 == IF rx >= coloff1 + e.screencols
                   THEN rx - e.screencols + 1
                   ELSE coloff1
    IN  [e EXCEPT !.rx = rx, !.rowoff = rowoff2, !.coloff = coloff2]

\* editorRowCxToRx reads chars[j] for j < cx: past the allocation
\* (size + 1 bytes) when cx > size + 1; E.row[E.cy] with cy < 0 is outside
\* the array
ScrollUB(e) ==
    \/ e.cy < 0
    \/ e.cy < e.numrows /\ e.cx > e.row[e.cy + 1].size + 1

(* Output: the frame *)

\* the strings written to the terminal
HideCursor == <<ESC, 91, 63, 50, 53, 108>>    \* "\x1b[?25l"
ShowCursor == <<ESC, 91, 63, 50, 53, 104>>    \* "\x1b[?25h"
CursorHome == <<ESC, 91, 72>>                 \* "\x1b[H"
ClearScreen == <<ESC, 91, 50, 74>>            \* "\x1b[2J"
ClearLine == <<ESC, 91, 75>>                  \* "\x1b[K"
CRLF == <<CR, LF>>                            \* "\r\n"
ReverseOn == <<ESC, 91, 55, 109>>             \* "\x1b[7m"
ReverseOff == <<ESC, 91, 109>>                \* "\x1b[m"
Tilde == <<126>>                              \* "~"
Blank == <<SPACE>>                            \* " "
\* "Kilo Editor -- version " KILO_VERSION
Welcome ==
    <<75, 105, 108, 111, 32, 69, 100, 105, 116, 111, 114, 32, 45, 45, 32,
      118, 101, 114, 115, 105, 111, 110, 32, 48, 46, 48, 46, 49>>
\* "[No File]"
NoFileName == <<91, 78, 111, 32, 70, 105, 108, 101, 93>>
\* "HELP: Ctrl-Q to quite"
HelpMessage ==
    <<72, 69, 76, 80, 58, 32, 67, 116, 114, 108, 45, 81, 32, 116, 111, 32,
      113, 117, 105, 116, 101>>

RECURSIVE Digits(_)
\* the decimal digits of n >= 0
Digits(n) ==
    IF n < 10 THEN <<48 + n>> ELSE Append(Digits(n \div 10), 48 + (n % 10))

\* what "%d" prints
FormatInt(n) == IF n < 0 THEN <<45>> \o Digits(0 - n) ELSE Digits(n)

\* memcpy of the first len bytes of s to the end of the buffer (realloc
\* taken to succeed)
abAppend(ab, s, len) == ab \o SubSeq(s, 1, len)

RECURSIVE AppendBlanks(_, _)
\* while (padding--) abAppend(ab, " ", 1)
AppendBlanks(ab, padding) ==
    IF padding > 0
    THEN AppendBlanks(abAppend(ab, Blank, 1), padding - 1)
    ELSE ab

\* the welcome line: "~", blanks up to the centre, the message cut to the
\* width of the window
DrawWelcome(ab, e) ==
    LET welcomeLen == IF Len(Welcome) > e.screencols
                      THEN e.screencols
                      ELSE Len(Welcome)
        padding == (e.screencols - welcomeLen) \div 2
        ab1 == IF padding # 0
               THEN AppendBlanks(abAppend(ab, Tilde, 1), padding - 1)
               ELSE ab
    IN  abAppend(ab1, Welcome, welcomeLen)

\* the part of row filerow's render that is in the window
DrawRow(ab, e, filerow) ==
    LET row == e.row[filerow + 1]
        len0 == row.rsize - e.coloff
        len1 == IF len0 < 0 THEN 0 ELSE len0
        len == IF len1 > e.screencols THEN e.screencols ELSE len1
    IN  IF len > 0
        THEN ab \o SubSeq(row.render, e.coloff + 1, e.coloff + len)
        ELSE ab

RECURSIVE DrawRowsLoop_between(_, _, _)
\* DrawRowsLoop with "\r\n" only between rows: none after the last one
DrawRowsLoop_between(ab, e, y) ==
    IF y < e.screenrows
    THEN LET filerow == y + e.rowoff
             line == IF filerow >= e.numrows
                     THEN IF e.numrows = 0 /\ y = e.screenrows \div 3
                          THEN DrawWelcome(ab, e)
                          ELSE abAppend(ab, Tilde, 1)
                     ELSE DrawRow(ab, e, filerow)
             cleared == abAppend(line, ClearLine, 3)
         IN  DrawRowsLoop_between(IF y < e.screenrows - 1
                                  THEN abAppend(cleared, CRLF, 2)
                                  ELSE cleared,
                                  e, y + 1)
    ELSE ab

RECURSIVE DrawRowsLoop(_, _, _)
\* for (y = 0; y < E.screenrows; y++): the line, "\x1b[K", "\r\n"
DrawRowsLoop(ab, e, y) ==
    IF y < e.screenrows
    THEN LET filerow == y + e.rowoff
             line == IF filerow >= e.numrows
                     THEN IF e.numrows = 0 /\ y = e.screenrows \div 3
                          THEN DrawWelcome(ab, e)
                          ELSE abAppend(ab, Tilde, 1)
                     ELSE DrawRow(ab, e, filerow)
         IN  DrawRowsLoop(abAppend(abAppend(line, ClearLine, 3), CRLF, 2),
                          e, y + 1)
    ELSE ab

editorDrawRows(ab, e) == DrawRowsLoop(ab, e, 0)

RECURSIVE StatusPadLoop(_, _, _, _)
\* while (len < E.screencols): rstatus when it fits exactly, else a blank
StatusPadLoop(ab, e, len, rstatus) ==
    IF len < e.screencols
    THEN IF e.screencols - len = Len(rstatus)
         THEN abAppend(ab, rstatus, Len(rstatus))
         ELSE StatusPadLoop(abAppend(ab, Blank, 1), e, len + 1, rstatus)
    ELSE ab

\* editorDrawStatusBar without the cut of the left part to screencols
editorDrawStatusBar_nocut(ab, e) ==
    LET name == IF e.filename # <<>> THEN e.filename ELSE NoFileName
        name20 == SubSeq(name, 1, IF Len(name) > 20 THEN 20 ELSE Len(name))
        left == name20 \o <<32, 45, 32>> \o FormatInt(e.numrows)
                \o <<32, 108, 105, 110, 101, 115>>
        rstatus == FormatInt(e.cy + 1) \o <<47>> \o FormatInt(e.numrows)
        len == Len(left)
        ab1 == abAppend(abAppend(ab, ReverseOn, 4), left, len)
        ab2 == StatusPadLoop(ab1, e, len, rstatus)
    IN  abAppend(abAppend(ab2, ReverseOff, 3), CRLF, 2)

\* "%.20s - %d lines" of the file name and numrows, cut to screencols,
\* padded, "%d/%d" of cy + 1 and numrows at the right, in reverse video
editorDrawStatusBar(ab, e) ==
    LET name == IF e.filename # <<>> THEN e.filename ELSE NoFileName
        name20 == SubSeq(name, 1, IF Len(name) > 20 THEN 20 ELSE Len(name))
        left == name20 \o <<32, 45, 32>> \o FormatInt(e.numrows)
                \o <<32, 108, 105, 110, 101, 115>>
        rstatus == FormatInt(e.cy + 1) \o <<47>> \o FormatInt(e.numrows)
        len == IF Len(left) > e.screencols THEN e.screencols
               ELSE Len(left)
        ab1 == abAppend(abAppend(ab, ReverseOn, 4), left, len)
        ab2 == StatusPadLoop(ab1, e, len, rstatus)
    IN  abAppend(abAppend(ab2, ReverseOff, 3), CRLF, 2)

\* "\x1b[K", then the message cut to screencols while it is less than 5
\* seconds old (fresh)
editorDrawMessageBar(ab, e, fresh) ==
    LET msglen == IF Len(e.statusmsg) > e.screencols THEN e.screencols
                  ELSE Len(e.statusmsg)
        ab1 == abAppend(ab, ClearLine, 3)
    IN  IF msglen # 0 /\ fresh THEN abAppend(ab1, e.statusmsg, msglen)
        ELSE ab1

\* "\x1b[%d;%dH" of cy - rowoff + 1 and rx - coloff + 1
CursorPosition(e) ==
    <<ESC, 91>> \o FormatInt(e.cy - e.rowoff + 1) \o <<59>>
    \o FormatInt(e.rx - e.coloff + 1) \o <<72>>

\* the buffer editorRefreshScreen has built when it calls write(); e is E
\* after editorScroll
FrameBuffer(e, fresh) ==
    LET ab1 == abAppend(<<>>, HideCursor, 6)
        ab2 == abAppend(ab1, CursorHome, 3)
        ab3 == editorDrawRows(ab2, e)
        ab4 == editorDrawStatusBar(ab3, e)
        ab5 == editorDrawMessageBar(ab4, e, fresh)
        buf == CursorPosition(e)
        ab6 == abAppend(ab5, buf, Len(buf))
    IN  abAppend(ab6, ShowCursor, 6)

\* vsnprintf into E.statusmsg, 80 bytes with the NUL
editorSetStatusMessage(e, msg) ==
    [e EXCEPT !.statusmsg = SubSeq(msg, 1, IF Len(msg) > 79 THEN 79
                                           ELSE Len(msg))]

(* Input *)

\* E.row[i].size; the caller's index is checked by MoveCursorUB
RowSize(e, i) == IF i >= 0 /\ i < e.numrows THEN e.row[i + 1].size ELSE 0

\* editorMoveCursor without the clamp of cx to the new row's size
editorMoveCursor_noclamp(e, key) ==
    CASE key = ARROW_LEFT ->
           IF e.cx # 0 THEN [e EXCEPT !.cx = e.cx - 1]
           ELSE IF e.cy > 0
                THEN [e EXCEPT !.cy = e.cy - 1, !.cx = RowSize(e, e.cy - 1)]
                ELSE e
      [] key = ARROW_RIGHT ->
           IF e.cy < e.numrows /\ e.cx < RowSize(e, e.cy)
           THEN [e EXCEPT !.cx = e.cx + 1]
           ELSE IF e.cy < e.numrows /\ e.cx = RowSize(e, e.cy)
                THEN [e EXCEPT !.cy = e.cy + 1, !.cx = 0]
                ELSE e
      [] key = ARROW_UP -> IF e.cy # 0 THEN [e EXCEPT !.cy = e.cy - 1] ELSE e
      [] key = ARROW_DOWN ->
           IF e.cy < e.numrows - 1 THEN [e EXCEPT !.cy = e.cy + 1] ELSE e
      [] OTHER -> e

editorMoveCursor(e, key) ==
    LET hasrow == e.cy < e.numrows
        size == RowSize(e, e.cy)
        e1 == CASE key = ARROW_LEFT ->
                     IF e.cx # 0 THEN [e EXCEPT !.cx = e.cx - 1]
                     ELSE IF e.cy > 0
                          THEN [e EXCEPT !.cy = e.cy - 1,
                                         !.cx = RowSize(e, e.cy - 1)]
                          ELSE e
                [] key = ARROW_RIGHT ->
                     IF hasrow /\ e.cx < size THEN [e EXCEPT !.cx = e.cx + 1]
                     ELSE IF hasrow /\ e.cx = size
                          THEN [e EXCEPT !.cy = e.cy + 1, !.cx = 0]
                          ELSE e
                [] key = ARROW_UP ->
                     IF e.cy # 0 THEN [e EXCEPT !.cy = e.cy - 1] ELSE e
                [] key = ARROW_DOWN ->
                     IF e.cy < e.numrows - 1
                     THEN [e EXCEPT !.cy = e.cy + 1]
                     ELSE e
                [] OTHER -> e
        rowlen == RowSize(e1, e1.cy)
    IN  IF e1.cx > rowlen THEN [e1 EXCEPT !.cx = rowlen] ELSE e1

\* ARROW_LEFT at cx == 0 reads E.row[cy - 1].size, outside the array when
\* cy - 1 >= numrows; with cy < 0 row points outside the array
MoveCursorUB(e, key) ==
    \/ e.cy < 0
    \/ key = ARROW_LEFT /\ e.cx = 0 /\ e.cy > e.numrows

(* Terminal *)

\* what editorReadKey returns when the bytes avail (not empty) are there to
\* be read and every read() after them times out: the key and the number
\* of bytes taken
ReadKeySeq(avail) ==
    LET n == Len(avail)
        ch == avail[1]
        seq0 == avail[2]
        seq1 == avail[3]
        seq2 == avail[4]
    IN  IF ch # ESC THEN [key |-> ch, n |-> 1]
        ELSE IF n < 2 THEN [key |-> ESC, n |-> 1]
        ELSE IF n < 3 THEN [key |-> ESC, n |-> 2]
        ELSE IF seq0 = 91   \* '['
             THEN IF seq1 >= 48 /\ seq1 <= 57   \* '0' .. '9'
                  THEN IF n < 4 THEN [key |-> ESC, n |-> 3]
                       ELSE IF seq2 = 126   \* '~'
                            THEN [key |-> CASE seq1 = 49 -> HOME_KEY
                                            [] seq1 = 51 -> DEL_KEY
                                            [] seq1 = 52 -> END_KEY
                                            [] seq1 = 53 -> PAGE_UP
                                            [] seq1 = 54 -> PAGE_DOWN
                                            [] seq1 = 55 -> HOME_KEY
                                            [] seq1 = 56 -> END_KEY
                                            [] OTHER -> ESC,
                                  n |-> 4]
                            ELSE [key |-> ESC, n |-> 4]
                  ELSE [key |-> CASE seq1 = 65 -> ARROW_UP
                                  [] seq1 = 66 -> ARROW_DOWN
                                  [] seq1 = 67 -> ARROW_RIGHT
                                  [] seq1 = 68 -> ARROW_LEFT
                                  [] seq1 = 72 -> HOME_KEY
                                  [] seq1 = 70 -> END_KEY
                                  [] OTHER -> ESC,
                        n |-> 3]
             ELSE IF seq0 = 79   \* 'O'
                  THEN [key |-> CASE seq1 = 72 -> HOME_KEY
                                  [] seq1 = 70 -> END_KEY
                                  [] OTHER -> ESC,
                        n |-> 3]
                  ELSE [key |-> ESC, n |-> 3]

\* editorReadKey without the branch for ESC O
editorReadKey_noSS3(avail) ==
    IF Len(avail) >= 3 /\ avail[1] = ESC /\ avail[2] = 79
    THEN [key |-> ESC, n |-> 3]
    ELSE ReadKeySeq(avail)

editorReadKey(avail) == ReadKeySeq(avail)

RECURSIVE MoveTimes(_, _, _)
\* while (times--) editorMoveCursor(key), for times >= 0
MoveTimes(e, key, times) ==
    IF times > 0
    THEN MoveTimes(editorMoveCursor(e, key), key, times - 1)
    ELSE e

\* Dispatch without the empty cases of Enter, Backspace, Ctrl-H, Delete
\* and Ctrl-L: they fall to the default and are inserted
Dispatch_todo(e, key) ==
    LET same == [e |-> e, quit |-> FALSE, ub |-> FALSE]
    IN  CASE key = CTRL_KEY(113) -> [same EXCEPT !.quit = TRUE]
          [] key \in {ARROW_UP, ARROW_DOWN, ARROW_LEFT, ARROW_RIGHT} ->
                [same EXCEPT !.e = editorMoveCursor(e, key),
                             !.ub = MoveCursorUB(e, key)]
          [] key = PAGE_UP ->
                [same EXCEPT !.e = MoveTimes([e EXCEPT !.cy = e.rowoff],
                                             ARROW_UP, e.screenrows),
                             \* times-- below INT_MIN when it starts negative
                             !.ub = e.screenrows < 0]
          [] key = PAGE_DOWN ->
                LET cy1 == e.rowoff + e.screenrows - 1
                    cy2 == IF cy1 > e.numrows THEN e.numrows ELSE cy1
                IN  [same EXCEPT !.e = MoveTimes([e EXCEPT !.cy = cy2],
                                                 ARROW_DOWN, e.screenrows),
                                 !.ub = e.screenrows < 0]
          [] key = HOME_KEY -> [same EXCEPT !.e = [e EXCEPT !.cx = 0]]
          [] key = END_KEY ->
                IF e.cy < e.numrows
                THEN [same EXCEPT !.e = [e EXCEPT !.cx = RowSize(e, e.cy)],
                                  !.ub = e.cy < 0]
                ELSE same
          [] key = ESC -> same
          [] OTHER -> [same EXCEPT !.e = editorInsertChar(e, key),
                                   !.ub = InsertCharUB(e)]

\* the switch of editorProcessKeypress on the decoded key: the editor state
\* it leaves, whether it called exit(0), and whether it left defined
\* behaviour
Dispatch(e, key) ==
    LET same == [e |-> e, quit |-> FALSE, ub |-> FALSE]
    IN  CASE key = CR -> same
          [] key = CTRL_KEY(113) -> [same EXCEPT !.quit = TRUE]
          [] key \in {ARROW_UP, ARROW_DOWN, ARROW_LEFT, ARROW_RIGHT} ->
                [same EXCEPT !.e = editorMoveCursor(e, key),
                             !.ub = MoveCursorUB(e, key)]
          [] key = PAGE_UP ->
                [same EXCEPT !.e = MoveTimes([e EXCEPT !.cy = e.rowoff],
                                             ARROW_UP, e.screenrows),
                             \* times-- below INT_MIN when it starts negative
                             !.ub = e.screenrows < 0]
          [] key = PAGE_DOWN ->
                LET cy1 == e.rowoff + e.screenrows - 1
                    cy2 == IF cy1 > e.numrows THEN e.numrows ELSE cy1
                IN  [same EXCEPT !.e = MoveTimes([e EXCEPT !.cy = cy2],
                                                 ARROW_DOWN, e.screenrows),
                                 !.ub = e.screenrows < 0]
          [] key = HOME_KEY -> [same EXCEPT !.e = [e EXCEPT !.cx = 0]]
          [] key = END_KEY ->
                IF e.cy < e.numrows
                THEN [same EXCEPT !.e = [e EXCEPT !.cx = RowSize(e, e.cy)],
                                  !.ub = e.cy < 0]
                ELSE same
          [] key \in {BACKSPACE, CTRL_KEY(104), DEL_KEY} -> same
          [] key \in {CTRL_KEY(108), ESC} -> same
          [] OTHER -> [same EXCEPT !.e = editorInsertChar(e, key),
                                   !.ub = InsertCharUB(e)]

-----------------------------------------------------------------------------
(* The environment: terminal sizes, files, keys *)

\* struct winsize as the terminal reports it: ws_row, ws_col
Windows ==
    { [rows |-> 2, cols |-> 2],
      [rows |-> 3, cols |-> 3],
      [rows |-> 4, cols |-> 2] }

\* what getWindowSize can come to: TIOCGWINSZ answers; or it fails (or says
\* ws_col == 0) and either a write of the fallback fails, or the cursor
\* position report is read and is malformed, or it is read and parsed
WinQueries ==
    [via : {"ioctl", "cursor"}, res : {0}, read : {TRUE}, win : Windows]
    \cup [via : {"cursor"}, res : {-1}, read : BOOLEAN, win : Windows]

\* the bytes of the files argv[1] may name
Files ==
    { <<>>,
      <<97, TAB, CR, LF, LF, TAB>>,
      <<97, 98, 99, LF, LF>> }

\* the name argv[1] gives: "f"
FileName == <<102>>

\* argv[1]: not given, a file fopen cannot open, or a file
Args ==
    { [given |-> FALSE, opens |-> FALSE, bytes |-> <<>>],
      [given |-> TRUE, opens |-> FALSE, bytes |-> <<>>] }
    \cup { [given |-> TRUE, opens |-> TRUE, bytes |-> f] : f \in Files }

\* the bytes the terminal sends for a key
KeyBytes(name) ==
    CASE name = "a" -> <<97>>
      [] name = "tab" -> <<TAB>>
      [] name = "ctrl-q" -> <<17>>
      [] name = "ctrl-j" -> <<LF>>
      [] name = "enter" -> <<CR>>
      [] name = "up" -> <<ESC, 91, 65>>
      [] name = "down" -> <<ESC, 91, 66>>
      [] name = "right" -> <<ESC, 91, 67>>
      [] name = "left" -> <<ESC, 91, 68>>
      [] name = "home" -> <<ESC, 91, 72>>
      [] name = "end" -> <<ESC, 79, 70>>
      [] name = "pageup" -> <<ESC, 91, 53, 126>>
      [] name = "pagedown" -> <<ESC, 91, 54, 126>>

Keys == {"a", "tab", "ctrl-q", "ctrl-j", "enter", "up", "down", "right",
         "left", "home", "end", "pageup", "pagedown"}

\* the user goes on typing while the document is small: the row under the
\* cursor has room, or the cursor is past the end and a row may be added
Room ==
    IF E.cy < E.numrows
    THEN E.row[E.cy + 1].size < MaxLen
    ELSE E.numrows < MaxRows

-----------------------------------------------------------------------------
(* The process *)

\* struct editorConfig E, a global: zero until initEditor
E0 ==
    [cx |-> 0, cy |-> 0, rx |-> 0, rowoff |-> 0, coloff |-> 0,
     screenrows |-> 0, screencols |-> 0, numrows |-> 0, row |-> <<>>,
     filename |-> <<>>, statusmsg |-> <<>>]

\* E as initEditor leaves it for a terminal of this size
InitE(win) ==
    [E0 EXCEPT !.screenrows = win.rows - 2, !.screencols = win.cols]

Init ==
    /\ pc = "main"
    /\ E = E0
    /\ termios = "orig"
    /\ atexit = FALSE
    /\ disabled = 0
    /\ status = -1
    /\ cause = "none"
    /\ pending = <<>>
    /\ c = NoKey
    /\ nwrite = "none"
    /\ reads = FALSE
    /\ typed = <<>>
    /\ written = <<>>

\* die(s) after the writes w: the screen cleared and the cursor sent home
\* in two writes, perror, exit(1)
dieAfter(s, w) ==
    /\ written' = w \o <<ClearScreen, CursorHome>>
    /\ pc' = "exiting"
    /\ status' = 1
    /\ cause' = s

die(s) == dieAfter(s, written)

\* enableRawMode without atexit(disableRawMode)
enableRawMode_noatexit ==
    /\ pc = "main"
    /\ \E get \in BOOLEAN, set \in BOOLEAN :
          IF ~get
          THEN die("tcgetattr") /\ UNCHANGED termios
          ELSE IF ~set
               THEN die("tcsetattr") /\ UNCHANGED termios
               ELSE /\ termios' = "raw"
                    /\ pc' = "init"
                    /\ UNCHANGED <<status, cause, written>>
    /\ UNCHANGED <<E, atexit, disabled, pending, c, nwrite, reads, typed>>

\* enableRawMode going on when tcsetattr fails, instead of die("tcsetattr")
enableRawMode_unchecked ==
    /\ pc = "main"
    /\ \E get \in BOOLEAN, set \in BOOLEAN :
          IF ~get
          THEN die("tcgetattr") /\ UNCHANGED <<atexit, termios>>
          ELSE /\ atexit' = TRUE
               /\ termios' = IF set THEN "raw" ELSE termios
               /\ pc' = "init"
               /\ UNCHANGED <<status, cause, written>>
    /\ UNCHANGED <<E, disabled, pending, c, nwrite, reads, typed>>

\* tcgetattr, atexit(disableRawMode), tcsetattr of the raw configuration
enableRawMode ==
    /\ pc = "main"
    /\ \E get \in BOOLEAN, set \in BOOLEAN :
          IF ~get
          THEN die("tcgetattr") /\ UNCHANGED <<atexit, termios>>
          ELSE /\ atexit' = TRUE
               /\ IF ~set
                  THEN die("tcsetattr") /\ UNCHANGED termios
                  ELSE /\ termios' = "raw"
                       /\ pc' = "init"
                       /\ UNCHANGED <<status, cause, written>>
    /\ UNCHANGED <<E, disabled, pending, c, nwrite, reads, typed>>

\* the writes of getWindowSize: none when TIOCGWINSZ answers; else
\* "\x1b[999C\x1b[999B" and, when that write went through, "\x1b[6n" (whose
\* failure leaves the report unread)
WinWrites(q) ==
    LET far == <<ESC, 91, 57, 57, 57, 67, ESC, 91, 57, 57, 57, 66>>
        query == <<ESC, 91, 54, 110>>
    IN  IF q.via = "ioctl"
        THEN {<<>>}
        ELSE IF q.read THEN {<<far, query>>} ELSE {<<far>>, <<far, query>>}

\* the fields set, then getWindowSize and screenrows -= 2
initEditor ==
    /\ pc = "init"
    /\ \E q \in WinQueries :
          /\ reads' = (reads \/ (q.via = "cursor" /\ q.read))
          /\ \E w \in WinWrites(q) :
                IF q.res = -1
                THEN dieAfter("getWindowSize", written \o w) /\ E' = E0
                ELSE /\ E' = InitE(q.win)
                     /\ written' = written \o w
                     /\ pc' = "open"
                     /\ UNCHANGED <<status, cause>>
    /\ UNCHANGED <<termios, atexit, disabled, pending, c, nwrite, typed>>

\* if (argc >= 2) editorOpen(argv[1]); editorSetStatusMessage(...); the
\* loop is entered
main_open ==
    /\ pc = "open"
    /\ \E arg \in Args :
          IF arg.given /\ ~arg.opens
          THEN die("fopen") /\ UNCHANGED E
          ELSE /\ E' = editorSetStatusMessage(
                           IF arg.given
                           THEN editorOpen(E, FileName, arg.bytes)
                           ELSE E,
                           HelpMessage)
               /\ written' = <<>>
               /\ pc' = "refresh"
               /\ UNCHANGED <<status, cause>>
    /\ UNCHANGED <<termios, atexit, disabled, pending, c, nwrite, reads,
                   typed>>

\* what write() of the frame can return: all of it, less, or -1
WriteResults == {"full", "short", "error"}

\* editorRefreshScreen with die("write") when write() does not return the
\* buffer's length
editorRefreshScreen_checked(results) ==
    /\ pc = "refresh"
    /\ \E w \in results, fresh \in BOOLEAN :
          IF ScrollUB(E)
          THEN /\ pc' = "undefined"
               /\ UNCHANGED <<E, nwrite, status, cause, written>>
          ELSE /\ E' = editorScroll(E)
               /\ nwrite' = w
               /\ IF w = "full"
                  THEN /\ written' = Append(written, FrameBuffer(E', fresh))
                       /\ pc' = "keypress"
                       /\ UNCHANGED <<status, cause>>
                  ELSE dieAfter("write",
                                Append(written, FrameBuffer(E', fresh)))
    /\ c' = NoKey
    /\ UNCHANGED <<termios, atexit, disabled, pending, reads, typed>>

\* editorRefreshScreen with the screen cleared by a write() of its own
\* before the frame is built
editorRefreshScreen_clearfirst(results) ==
    /\ pc = "refresh"
    /\ \E w \in results, fresh \in BOOLEAN :
          IF ScrollUB(E)
          THEN pc' = "undefined" /\ UNCHANGED <<E, nwrite, written>>
          ELSE /\ E' = editorScroll(E)
               /\ written' = written
                              \o <<ClearScreen, FrameBuffer(E', fresh)>>
               /\ nwrite' = w
               /\ pc' = "keypress"
    /\ c' = NoKey
    /\ UNCHANGED <<termios, atexit, disabled, status, cause, pending, reads,
                   typed>>

\* editorScroll, the frame built in the buffer, and its one write(), whose
\* result is not looked at; results are the ones the terminal can give,
\* fresh is whether time(NULL) is within 5 seconds of the message's time
editorRefreshScreen(results) ==
    /\ pc = "refresh"
    /\ \E w \in results, fresh \in BOOLEAN :
          IF ScrollUB(E)
          THEN pc' = "undefined" /\ UNCHANGED <<E, nwrite, written>>
          ELSE /\ E' = editorScroll(E)
               /\ written' = Append(written, FrameBuffer(E', fresh))
               /\ nwrite' = w
               /\ pc' = "keypress"
    /\ c' = NoKey
    /\ UNCHANGED <<termios, atexit, disabled, status, cause, pending, reads,
                   typed>>

\* the terminal delivers the bytes of a key
Deliver ==
    /\ pc = "keypress"
    /\ pending = <<>>
    /\ E.cy <= E.numrows + MaxPast
    /\ \E k \in Keys :
          /\ (k \in {"a", "tab", "ctrl-j"} => Room)
          /\ pending' = KeyBytes(k)
    /\ UNCHANGED <<pc, E, termios, atexit, disabled, status, cause, c,
                   nwrite, reads, typed, written>>

\* ReadAgain with editorReadKey returning when its first read() brought
\* no byte, instead of reading again
ReadAgain_returns ==
    /\ pc = "keypress"
    /\ pending = <<>>
    /\ reads' = TRUE
    /\ pc' = "refresh"
    /\ UNCHANGED <<E, termios, atexit, disabled, status, cause, pending,
                   c, nwrite, typed, written>>

\* editorReadKey's first read() returns 0 (timeout) or -1 with EAGAIN: it
\* reads again
ReadAgain ==
    /\ pc = "keypress"
    /\ pending = <<>>
    /\ reads' = TRUE
    /\ UNCHANGED <<pc, E, termios, atexit, disabled, status, cause, pending,
                   c, nwrite, typed, written>>

\* editorReadKey's first read() returns -1 with another errno
ReadFails ==
    /\ pc = "keypress"
    /\ reads' = TRUE
    /\ die("read")
    /\ UNCHANGED <<E, termios, atexit, disabled, pending, c, nwrite, typed>>

\* editorReadKey decodes a key from the bytes there are, and the switch
\* acts on it; Ctrl-Q clears the screen and sends the cursor home in two
\* writes before exit(0)
editorProcessKeypress ==
    /\ pc = "keypress"
    /\ pending # <<>>
    /\ LET r == editorReadKey(pending)
           d == Dispatch(E, r.key)
       IN  /\ c' = r.key
           /\ pending' = SubSeq(pending, r.n + 1, Len(pending))
           /\ IF d.ub
              THEN /\ pc' = "undefined"
                   /\ written' = <<>>
                   /\ UNCHANGED <<E, status, cause>>
              ELSE IF d.quit
                   THEN /\ pc' = "exiting"
                        /\ written' = <<ClearScreen, CursorHome>>
                        /\ status' = 0
                        /\ cause' = "quit"
                        /\ UNCHANGED E
                   ELSE /\ pc' = "refresh"
                        /\ written' = <<>>
                        /\ E' = d.e
                        /\ UNCHANGED <<status, cause>>
    /\ reads' = TRUE
    /\ nwrite' = "none"
    /\ UNCHANGED <<termios, atexit, disabled, typed>>

\* exit(): the atexit handler disableRawMode runs, once; when its tcsetattr
\* fails it calls die(), which calls exit() a second time: undefined
\* behaviour, under which the C libraries either go on to end the process
\* with the new status or kill it
exit ==
    /\ pc = "exiting"
    /\ IF ~atexit
       THEN /\ pc' = "exited"
            /\ UNCHANGED <<disabled, termios, status, cause, written>>
       ELSE /\ disabled' = disabled + 1
            /\ \E out \in {"restored", "failed-exit", "failed-killed"} :
                  IF out = "restored"
                  THEN /\ termios' = "orig"
                       /\ pc' = "exited"
                       /\ UNCHANGED <<status, cause, written>>
                  ELSE /\ written' = written \o <<ClearScreen, CursorHome>>
                       /\ status' = 1
                       /\ pc' = IF out = "failed-exit" THEN "exited"
                                ELSE "killed"
                       /\ UNCHANGED <<termios, cause>>
    /\ UNCHANGED <<E, atexit, pending, c, nwrite, reads, typed>>

Next ==
    \/ enableRawMode
    \/ initEditor
    \/ main_open
    \/ editorRefreshScreen(WriteResults)
    \/ Deliver
    \/ ReadAgain
    \/ ReadFails
    \/ editorProcessKeypress
    \/ exit

Spec == Init /\ [][Next]_vars

-----------------------------------------------------------------------------
(* The operations called on their own *)

\* a process in its main loop, about to act in pc = at
Looping(at) ==
    /\ pc = at
    /\ termios = "raw"
    /\ atexit = TRUE
    /\ disabled = 0
    /\ status = -1
    /\ cause = "none"
    /\ c = NoKey
    /\ nwrite = "none"
    /\ reads = FALSE
    /\ written = <<>>

RECURSIVE SeqsUpTo(_, _)
\* the sequences over S of length at most n
SeqsUpTo(S, n) ==
    IF n = 0
    THEN {<<>>}
    ELSE LET shorter == SeqsUpTo(S, n - 1)
         IN  shorter \cup {Append(t, x) : t \in shorter, x \in S}

RECURSIVE StoreOf(_, _)
\* the row store editorAppendRow builds from these lines
StoreOf(e, lines) ==
    IF lines = <<>>
    THEN e
    ELSE StoreOf(editorAppendRow(e, Head(lines), Len(Head(lines))),
                 Tail(lines))

\* lines of text and tabs
Lines == SeqsUpTo({97, TAB}, MaxChars)

\* the window the operations are called in
CallWindow == [rows |-> 4, cols |-> 3]

(* editorAppendRow and editorRowInsertChar, from an empty row store *)

InitRows ==
    /\ Looping("rows")
    /\ E = InitE(CallWindow)
    /\ pending = <<>>
    /\ typed = <<>>

AppendRowCall ==
    /\ pc = "rows"
    /\ E.numrows < MaxStore
    /\ \E s \in Lines : E' = editorAppendRow(E, s, Len(s))
    /\ UNCHANGED <<pc, termios, atexit, disabled, status, cause, pending, c,
                   nwrite, reads, typed, written>>

\* editorRowInsertChar(&E.row[E.cy], E.cx, c) for any row, any at from
\* below 0 to above the size, and a byte; cy, cx and c are left holding
\* the arguments of the call
RowInsertCharCall ==
    /\ pc = "rows"
    /\ \E i \in 1..E.numrows :
          /\ E.row[i].size < MaxChars
          /\ \E at \in -2..(E.row[i].size + 2), ch \in {97, TAB} :
                /\ E' = [E EXCEPT !.row[i] =
                                      editorRowInsertChar(E.row[i], at, ch),
                                  !.cy = i - 1, !.cx = at]
                /\ c' = ch
    /\ UNCHANGED <<pc, termios, atexit, disabled, status, cause, pending,
                   nwrite, reads, typed, written>>

NextRows == AppendRowCall \/ RowInsertCharCall

SpecRows == InitRows /\ [][NextRows]_vars

(* editorMoveCursor, from the cursor at (0, 0) in any row store *)

\* rows of every size
SizedLines == {[i \in 1..n |-> 97] : n \in 0..MaxChars}

InitCursor ==
    /\ Looping("cursor")
    /\ \E lines \in SeqsUpTo(SizedLines, MaxStore) :
          E = StoreOf(InitE(CallWindow), lines)
    /\ pending = <<>>
    /\ typed = <<>>

MoveCursorCall ==
    /\ pc = "cursor"
    /\ \E key \in {ARROW_LEFT, ARROW_RIGHT, ARROW_UP, ARROW_DOWN} :
          /\ ~MoveCursorUB(E, key)
          /\ E' = editorMoveCursor(E, key)
          /\ c' = key
    /\ UNCHANGED <<pc, termios, atexit, disabled, status, cause, pending,
                   nwrite, reads, typed, written>>

NextCursor == MoveCursorCall

SpecCursor == InitCursor /\ [][NextCursor]_vars

(* editorReadKey and the switch on its key, run on a byte sequence that
   is all there when the first key is read *)

\* the bytes the decoder tells apart: ESC [ O ~, the digits, A B C D F H,
\* and x for every other byte
DecodeBytes == {ESC, 91, 79, 126, 120} \cup 48..57 \cup {65, 66, 67, 68, 70, 72}

\* bytes that follow the four the decoder can take: ~ A x, and the keys
\* the switch has a case of its own for: Enter, Backspace, Ctrl-H, Ctrl-L
TailBytes == {126, 65, 120, CR, BACKSPACE, CTRL_KEY(104), CTRL_KEY(108)}

KeySeqs ==
    {<<b>> : b \in DecodeBytes}
    \cup {<<ESC>> \o t : t \in SeqsUpTo(DecodeBytes, 2)}
    \cup {<<ESC>> \o t \o u : t \in [1..3 -> DecodeBytes],
                              u \in SeqsUpTo(TailBytes, MaxSeq - 4)}

\* the editor, a file of three rows read, its first frame drawn
KeysE ==
    editorScroll(editorSetStatusMessage(
                     editorOpen(InitE(CallWindow), FileName,
                                <<97, TAB, CR, LF, LF, TAB>>),
                     HelpMessage))

InitKeys ==
    /\ Looping("keypress")
    /\ E = KeysE
    /\ \E s \in KeySeqs : pending = s /\ typed = s

NextKeys == editorProcessKeypress \/ editorRefreshScreen({"full"})

SpecKeys == InitKeys /\ [][NextKeys]_vars

(* editorDrawStatusBar, for every width, file name and row count *)

\* file names: none, "f", one of 20 bytes, one of 25
StatusNames == {<<>>, FileName, [i \in 1..20 |-> 102], [i \in 1..25 |-> 102]}

\* the numbers of rows: one, two and three digits
StatusCounts == {0, 1, 10, 100}

\* a store of n empty rows, the cursor on row cy, in a window cols wide
StatusE(cols, name, n, cy) ==
    LET empty == editorAppendRow(E0, <<>>, 0).row[1]
    IN  [InitE(CallWindow) EXCEPT !.screencols = cols, !.filename = name,
                                  !.numrows = n, !.cy = cy,
                                  !.row = [i \in 1..n |-> empty]]

InitStatus ==
    /\ Looping("status")
    /\ \E cols \in 0..MaxCols, name \in StatusNames, n \in StatusCounts :
          \E cy \in {0, n \div 2, n} : E = StatusE(cols, name, n, cy)
    /\ pending = <<>>
    /\ typed = <<>>

DrawStatusBarCall ==
    /\ pc = "status"
    /\ written' = <<editorDrawStatusBar(<<>>, E)>>
    /\ UNCHANGED <<pc, E, termios, atexit, disabled, status, cause, pending,
                   c, nwrite, reads, typed>>

NextStatus == DrawStatusBarCall

SpecStatus == InitStatus /\ [][NextStatus]_vars

-----------------------------------------------------------------------------
(* editorReadKey waiting for its input, in the loop of a process that has
   no file open *)

InitRead ==
    /\ Looping("refresh")
    /\ E = editorSetStatusMessage(InitE(CallWindow), HelpMessage)
    /\ pending = <<>>
    /\ typed = <<>>

NextRead ==
    \/ editorRefreshScreen({"full"})
    \/ Deliver
    \/ ReadAgain
    \/ ReadFails
    \/ editorProcessKeypress
    \/ exit

\* the process goes on running; and the terminal, waited for, delivers
\* bytes
FairRead ==
    /\ WF_vars(editorRefreshScreen({"full"}))
    /\ WF_vars(editorProcessKeypress)
    /\ WF_vars(exit)
    /\ WF_vars(Deliver)

SpecRead == InitRead /\ [][NextRead]_vars /\ FairRead

-----------------------------------------------------------------------------
(* The claims *)

\* the size of the row the cursor is on; the row past the end has size 0
CursorRowSize ==
    IF E.cy >= 0 /\ E.cy < E.numrows THEN E.row[E.cy + 1].size ELSE 0

\* C1: from the cursor at (0, 0) in any row store, after any sequence of
\* editorMoveCursor calls 0 <= cy <= numrows and 0 <= cx <= the size of the
\* row at cy, the row past the end counting as size 0
C1_CursorInvariant ==
    /\ 0 <= E.cy /\ E.cy <= E.numrows
    /\ 0 <= E.cx /\ E.cx <= CursorRowSize

\* the cursor at the end of a row that is shorter than the row above it
C1_Witness ==
    /\ pc = "cursor"
    /\ E.cy > 0 /\ E.cy < E.numrows
    /\ E.cx = CursorRowSize /\ E.cx > 0
    /\ E.row[E.cy].size > E.cx

Spaces(n) == [i \in 1..n |-> SPACE]

RECURSIVE TabExpansion(_)
\* chars with each tab replaced by spaces up to the next multiple of the
\* tab stop, every other byte copied
TabExpansion(chars) ==
    IF chars = <<>>
    THEN <<>>
    ELSE LET n == Len(chars)
             before == TabExpansion(SubSeq(chars, 1, n - 1))
         IN  IF chars[n] = TAB
             THEN before \o Spaces(KILO_TAB_STOP - (Len(before) % KILO_TAB_STOP))
             ELSE Append(before, chars[n])

\* C8: after any sequence of editorAppendRow and editorRowInsertChar calls
\* every row's render is the tab expansion of its chars and rsize is its
\* length; a row that is one tab renders as four spaces
C8_RenderInvariant ==
    \A i \in 1..Len(E.row) :
        /\ E.row[i].render = TabExpansion(E.row[i].chars)
        /\ E.row[i].rsize = Len(TabExpansion(E.row[i].chars))
        /\ E.row[i].chars = <<TAB>> =>
               E.row[i].render = <<SPACE, SPACE, SPACE, SPACE>>

\* a row, after a row that is one tab, with a tab behind a byte
C8_Witness ==
    /\ pc = "rows"
    /\ E.numrows = 2
    /\ E.row[1].chars = <<TAB>>
    /\ E.row[2].chars = <<97, TAB, 97>>
    /\ E.row[2].rsize = 5

\* C9: for every chars, editorRowCxToRx(row, row.size) is the rsize that
\* editorUpdateRow left in the row
C9_CxToRxIsRsize ==
    \A i \in 1..Len(E.row) :
        editorRowCxToRx(E.row[i], E.row[i].size) = E.row[i].rsize

\* a row with tabs at and off a tab stop
C9_Witness ==
    /\ pc = "rows"
    /\ \E i \in 1..Len(E.row) :
          /\ E.row[i].chars = <<97, TAB, TAB, 97, 97>>
          /\ E.row[i].rsize = 10

\* the key the decoding table gives for the bytes s, the first of which
\* is the first byte read
TableKey(s) ==
    LET n == Len(s)
        csi == n >= 3 /\ s[2] = 91
        tilde == csi /\ n >= 4 /\ s[4] = 126
        ss3 == n >= 3 /\ s[2] = 79
    IN  CASE s[1] # ESC -> s[1]
          [] s[1] = ESC /\ csi /\ s[3] = 65 -> ARROW_UP
          [] s[1] = ESC /\ csi /\ s[3] = 66 -> ARROW_DOWN
          [] s[1] = ESC /\ csi /\ s[3] = 67 -> ARROW_RIGHT
          [] s[1] = ESC /\ csi /\ s[3] = 68 -> ARROW_LEFT
          [] s[1] = ESC /\ csi /\ s[3] = 72 -> HOME_KEY
          [] s[1] = ESC /\ csi /\ s[3] = 70 -> END_KEY
          [] s[1] = ESC /\ tilde /\ s[3] \in {49, 55} -> HOME_KEY
          [] s[1] = ESC /\ tilde /\ s[3] = 51 -> DEL_KEY
          [] s[1] = ESC /\ tilde /\ s[3] \in {52, 56} -> END_KEY
          [] s[1] = ESC /\ tilde /\ s[3] = 53 -> PAGE_UP
          [] s[1] = ESC /\ tilde /\ s[3] = 54 -> PAGE_DOWN
          [] s[1] = ESC /\ ss3 /\ s[3] = 72 -> HOME_KEY
          [] s[1] = ESC /\ ss3 /\ s[3] = 70 -> END_KEY
          [] OTHER -> ESC

\* C3: for every byte sequence there to be read (a read past its end times
\* out) editorReadKey returns the key of the decoding table: the first byte
\* when it is not ESC, the named key for the sequences of the table, and
\* the lone escape for every other sequence that starts with ESC
C3_KeyTable ==
    [][(pc = "keypress" /\ pending # <<>>) => c' = TableKey(pending)]_vars

\* ESC [ 5 ~ was decoded as PageUp
C3_Witness ==
    /\ typed = <<ESC, 91, 53, 126>>
    /\ pending = <<>>
    /\ pc = "refresh"
    /\ c = PAGE_UP

\* a control sequence as terminals send them: ESC [, parameter bytes, a
\* final byte; or ESC O and a final byte
IsEscapeSequence(s) ==
    /\ Len(s) >= 3
    /\ s[1] = ESC
    /\ s[Len(s)] \in 64..126
    /\ \/ s[2] = 91 /\ \A i \in 3..(Len(s) - 1) : s[i] \in 48..63
       \/ s[2] = 79 /\ Len(s) = 3

\* the sequences of the decoder's grammars
Recognized ==
    {<<ESC, 91, l>> : l \in {65, 66, 67, 68, 72, 70}}
    \cup {<<ESC, 91, d, 126>> : d \in {49, 51, 52, 53, 54, 55, 56}}
    \cup {<<ESC, 79, l>> : l \in {72, 70}}

\* C5: when the terminal has delivered a complete escape sequence that
\* matches none of the decoder's grammars and all its bytes are processed,
\* numrows, every row's chars and the cursor are as they were
C5_UnrecognizedIsNoOp ==
    (/\ pc = "keypress"
     /\ pending = <<>>
     /\ IsEscapeSequence(typed)
     /\ typed \notin Recognized)
    => /\ E.numrows = KeysE.numrows
       /\ \A i \in 1..KeysE.numrows : E.row[i].chars = KeysE.row[i].chars
       /\ E.cx = KeysE.cx
       /\ E.cy = KeysE.cy

\* C2: in a window with screenrows >= 1 and screencols >= 1 and with a
\* cursor that satisfies the cursor invariant, right after editorScroll the
\* cursor is inside the window, and the position written in the frame is
\* within 1..screenrows and 1..screencols
C2_ScrollInvariant ==
    (/\ pc = "keypress"
     /\ E.screenrows >= 1 /\ E.screencols >= 1
     /\ 0 <= E.cy /\ E.cy <= E.numrows
     /\ 0 <= E.cx /\ E.cx <= CursorRowSize)
    => /\ E.rowoff <= E.cy /\ E.cy < E.rowoff + E.screenrows
       /\ E.coloff <= E.rx /\ E.rx < E.coloff + E.screencols
       /\ E.cy - E.rowoff + 1 \in 1..E.screenrows
       /\ E.rx - E.coloff + 1 \in 1..E.screencols

\* a frame drawn with the window scrolled down and to the right, the cursor
\* in its last row and last column
C2_Witness ==
    /\ pc = "keypress"
    /\ E.screenrows >= 1 /\ E.screencols >= 1
    /\ E.cy <= E.numrows /\ E.cx <= CursorRowSize
    /\ E.rowoff > 0 /\ E.coloff > 0
    /\ E.cy = E.rowoff + E.screenrows - 1
    /\ E.rx = E.coloff + E.screencols - 1

\* the process has ended: exit() is through, or a signal killed it
Ended == pc \in {"exited", "killed"}

\* C4: on every path on which exit() (by Ctrl-Q or by die) ends the process
\* after enableRawMode's tcgetattr has succeeded, disableRawMode is invoked
\* exactly once; it is never invoked before exit() is called
C4_RestoredOnce ==
    /\ (Ended /\ cause # "tcgetattr") => disabled = 1
    /\ pc \notin {"exiting", "exited", "killed"} => disabled = 0
    /\ pc = "exiting" => disabled = 0

\* Ctrl-Q ended the process, the terminal restored by the one call
C4_Witness ==
    /\ pc = "exited"
    /\ cause = "quit"
    /\ disabled = 1
    /\ termios = "orig"

C7_ExitCodes ==
    Ended => /\ pc = "exited"
             /\ cause = "quit" => status = 0
             /\ cause # "quit" => status = 1

\* the keys the switch of editorProcessKeypress has no case for
IsCharKey(key) ==
    /\ key \in 0..255
    /\ key \notin {CR, CTRL_KEY(113), CTRL_KEY(104), CTRL_KEY(108), ESC,
                   BACKSPACE, ARROW_LEFT, ARROW_RIGHT, ARROW_UP, ARROW_DOWN,
                   DEL_KEY, HOME_KEY, END_KEY, PAGE_UP, PAGE_DOWN}

\* f is e with the byte ch typed at e's cursor
TypedAt(e, f, ch) ==
    LET old == IF e.cy >= 0 /\ e.cy < e.numrows
               THEN e.row[e.cy + 1].chars
               ELSE <<>>
    IN  /\ f.numrows = (IF e.cy = e.numrows THEN e.numrows + 1 ELSE e.numrows)
        /\ f.cy = e.cy
        /\ f.cx = e.cx + 1
        /\ e.cy < f.numrows
        /\ e.cx <= Len(old)
        /\ f.row[e.cy + 1].size = Len(old) + 1
        /\ f.row[e.cy + 1].chars =
               SubSeq(old, 1, e.cx) \o <<ch>> \o SubSeq(old, e.cx + 1, Len(old))
        /\ \A i \in 1..e.numrows : i # e.cy + 1 => f.row[i] = e.row[i]

\* C10: when a character key is processed with the cursor at (cx, cy), an
\* empty row is appended first if cy = numrows, the byte is inserted at
\* index cx of row cy (the bytes before cx as they were, those from cx on
\* one to the right, size one more), cx is one more, and cy and every
\* other row are as they were
C10_TypingInserts ==
    [][(pc = "keypress" /\ pending # <<>> /\ IsCharKey(c'))
       => (pc' = "refresh" /\ TypedAt(E, E', c'))]_vars

\* the same, for a cursor within the document: 0 <= cy <= numrows and
\* 0 <= cx <= the size of the row at cy (not one of the claims: it shows
\* where C10 holds)
TypingInsertsAtValidCursor ==
    [][(/\ pc = "keypress" /\ pending # <<>> /\ IsCharKey(c')
        /\ 0 <= E.cy /\ E.cy <= E.numrows
        /\ 0 <= E.cx /\ E.cx <= CursorRowSize)
       => (pc' = "refresh" /\ TypedAt(E, E', c'))]_vars

\* the step leaves the cursor at (cx, cy)
MovedTo(cx, cy) == E'.cx = cx /\ E'.cy = cy

\* C11: editorMoveCursor(ARROW_LEFT) at cx = 0 with cy > 0 (and a row at
\* cy - 1) leaves the cursor at (size of row cy - 1, cy - 1);
\* editorMoveCursor(ARROW_RIGHT) at cx = size of row cy with cy < numrows
\* leaves it at (0, cy + 1); ARROW_LEFT at (0, 0) and ARROW_RIGHT on the
\* row past the end leave it where it was (holds of SpecCursor, where the
\* cursor satisfies the cursor invariant)
C11_LineWrap ==
    [][(pc \in {"cursor", "keypress"}) =>
       (/\ (/\ c' = ARROW_LEFT /\ E.cx = 0
            /\ E.cy > 0 /\ E.cy - 1 < E.numrows)
           => MovedTo(E.row[E.cy].size, E.cy - 1)
        /\ (/\ c' = ARROW_RIGHT
            /\ 0 <= E.cy /\ E.cy < E.numrows
            /\ E.cx = CursorRowSize)
           => MovedTo(0, E.cy + 1)
        /\ (c' = ARROW_LEFT /\ E.cx = 0 /\ E.cy = 0) => MovedTo(0, 0)
        /\ (c' = ARROW_RIGHT /\ E.cy = E.numrows) => MovedTo(E.cx, E.cy))
      ]_vars

\* C12: in every reachable state, whatever file was read and whatever
\* bytes were typed, no row's chars ends with the newline byte
C12_NoTrailingNewline ==
    \A i \in 1..Len(E.row) :
        E.row[i].size > 0 => E.row[i].chars[E.row[i].size] # LF

\* rx as the claims state it right after editorScroll: at least cx, the
\* render column of cx on the row at cy, and 0 with cx = 0 on the row past
\* the end
RxOfCx ==
    /\ E.rx >= E.cx
    /\ (0 <= E.cy /\ E.cy < E.numrows)
       => E.rx = editorRowCxToRx(E.row[E.cy + 1], E.cx)
    /\ E.cy = E.numrows => (E.rx = 0 /\ E.cx = 0)

\* C13: in every state reached by any sequence of keys, right after
\* editorScroll rx >= cx: rx is editorRowCxToRx of the row at cy when
\* cy < numrows, and rx = 0 with cx = 0 on the row past the end
C13_RxAtLeastCx == pc = "keypress" => RxOfCx

\* the same, for a cursor within the document (not one of the claims: it
\* shows where C13 holds)
RxAtLeastCxAtValidCursor ==
    (/\ pc = "keypress"
     /\ 0 <= E.cy /\ E.cy <= E.numrows
     /\ 0 <= E.cx /\ E.cx <= CursorRowSize)
    => RxOfCx

\* pat is in w at index i
IsAt(w, pat, i) ==
    /\ i >= 1
    /\ i + Len(pat) - 1 <= Len(w)
    /\ SubSeq(w, i, i + Len(pat) - 1) = pat

\* the first index from `from` on at which pat is in w, 0 when there is none
Find(w, pat, from) ==
    LET at == {i \in from..Len(w) : IsAt(w, pat, i)}
    IN  IF at = {} THEN 0 ELSE CHOOSE i \in at : \A j \in at : i <= j

\* w is a frame for e, its parts in order: hide-cursor, cursor-home, one
\* line per screen row (each closed by clear-line and a line break), the
\* status bar from reverse-video-on to reverse-video-off and a line break,
\* the message bar opened by clear-line, the cursor position, show-cursor
FrameInOrder(w, e) ==
    LET s == Find(w, ReverseOn, 10)
        t == Find(w, ReverseOff \o CRLF, s + 4)
        m == t + 5
        p == Find(w, <<ESC, 91>>, m + 3)
        h == Len(w) - 5
        lines == {i \in 10..(s - 1) : IsAt(w, ClearLine \o CRLF, i)}
    IN  /\ IsAt(w, HideCursor, 1)
        /\ IsAt(w, CursorHome, 7)
        /\ s >= 10
        /\ Cardinality(lines) = (IF e.screenrows > 0 THEN e.screenrows ELSE 0)
        /\ IF e.screenrows > 0 THEN s - 5 \in lines ELSE s = 10
        /\ t > 0
        /\ IsAt(w, ClearLine, m)
        /\ p > 0 /\ p < h
        /\ SubSeq(w, p, h - 1) = CursorPosition(e)
        /\ IsAt(w, ShowCursor, h)

\* C14: between two key reads exactly one buffer is written to the
\* terminal, by the refresh, and it holds the whole frame in order:
\* hide-cursor, cursor-home, the text rows, the status bar, the message
\* bar, the cursor position, show-cursor; nothing is written between the
\* key read and the refresh
C14_OneWritePerFrame ==
    /\ pc = "refresh" => written = <<>>
    /\ pc = "keypress" => (Len(written) = 1 /\ FrameInOrder(written[1], E))

\* a frame written after keys were processed: text typed, the window
\* scrolled
C14_Witness ==
    /\ pc = "keypress"
    /\ E.cx > 0 /\ E.rowoff > 0 /\ E.screenrows >= 1
    /\ Len(written) = 1
    /\ FrameInOrder(written[1], E)

\* the length of what w shows between reverse-video-on at its start and
\* the first reverse-video-off; -1 when w is not of that form
VisibleLen(w) ==
    LET off == Find(w, ReverseOff, 5)
    IN  IF IsAt(w, ReverseOn, 1) /\ off > 0 THEN off - 5 ELSE -1

\* C15: for every screencols >= 0, file name (or none), cy and numrows,
\* what editorDrawStatusBar emits between reverse-video-on and
\* reverse-video-off is at most screencols bytes long
C15_StatusBarWidth ==
    (pc = "status" /\ written # <<>>)
    => (/\ VisibleLen(written[1]) >= 0
        /\ VisibleLen(written[1]) <= E.screencols)

\* a bar with a file name cut to 20 bytes, padding, and the right part in
\* a window wide enough for all of it
C15_Witness ==
    /\ pc = "status"
    /\ written # <<>>
    /\ Len(E.filename) > 20
    /\ E.numrows = 100
    /\ VisibleLen(written[1]) = E.screencols
    /\ LET right == FormatInt(E.cy + 1) \o <<47>> \o FormatInt(E.numrows)
       IN  IsAt(written[1], Blank \o right \o ReverseOff,
                Len(written[1]) - 5 - Len(right))

\* C16: in every state, editorScroll called again right after
\* editorScroll, with cx, cy and the rows as they are, leaves rowoff,
\* coloff and rx as the first call set them
C16_ScrollIdempotent ==
    (pc = "keypress" /\ ~ScrollUB(E))
    => LET again == editorScroll(E)
       IN  /\ again.rowoff = E.rowoff
           /\ again.coloff = E.coloff
           /\ again.rx = E.rx

\* the first call has moved the window down and to the right
C16_Witness ==
    /\ pc = "keypress"
    /\ E.rowoff > 0 /\ E.coloff > 0 /\ E.rx > E.cx
    /\ editorScroll(E) = E

\* C17: for every row and all cx1 <= cx2 in 0..size,
\* editorRowCxToRx(row, cx1) <= editorRowCxToRx(row, cx2)
C17_CxToRxMonotone ==
    \A i \in 1..Len(E.row) :
        \A cx1 \in 0..E.row[i].size, cx2 \in 0..E.row[i].size :
            cx1 <= cx2
            => editorRowCxToRx(E.row[i], cx1) <= editorRowCxToRx(E.row[i], cx2)

\* a stored row in which a tab follows text that has passed a tab stop
C17_Witness ==
    /\ pc = "rows"
    /\ \E i \in 1..Len(E.row) :
          /\ E.row[i].size = MaxChars
          /\ E.row[i].chars[E.row[i].size - 1] = TAB
          /\ editorRowCxToRx(E.row[i], E.row[i].size - 2) > KILO_TAB_STOP
          /\ editorRowCxToRx(E.row[i], E.row[i].size - 1)
             > editorRowCxToRx(E.row[i], E.row[i].size - 2) + 1

\* the cursor invariant of e: 0 <= cy <= numrows and 0 <= cx <= the size
\* of the row at cy, the row past the end counting as size 0
CursorOK(e) ==
    /\ 0 <= e.cy /\ e.cy <= e.numrows
    /\ 0 <= e.cx /\ e.cx <= RowSize(e, e.cy)

\* the scroll invariant of e: the cursor is inside the window
ScrollOK(e) ==
    /\ e.rowoff <= e.cy /\ e.cy < e.rowoff + e.screenrows
    /\ e.coloff <= e.rx /\ e.rx < e.coloff + e.screencols

\* C18: for every screenrows the editor can start with and every state
\* reached after a frame, processing PAGE_UP or PAGE_DOWN ends with the
\* cursor invariant, and the editorScroll of the next frame ends with the
\* scroll invariant
C18_PagePreservesInvariant ==
    [][/\ (pc = "keypress" /\ c' \in {PAGE_UP, PAGE_DOWN})
          => (pc' = "refresh" /\ CursorOK(E'))
       /\ (pc = "refresh" /\ c \in {PAGE_UP, PAGE_DOWN})
          => (pc' = "keypress" /\ ScrollOK(E'))]_vars

\* the same in a window with at least one text row (not one of the
\* claims: it shows where C18 holds)
PagePreservesInvariantWithRows ==
    [][E.screenrows >= 1
       => (/\ (pc = "keypress" /\ c' \in {PAGE_UP, PAGE_DOWN})
              => (pc' = "refresh" /\ CursorOK(E'))
           /\ (pc = "refresh" /\ c \in {PAGE_UP, PAGE_DOWN})
              => (pc' = "keypress" /\ ScrollOK(E')))]_vars

\* the step is a call of editorRowInsertChar on row i (from 1) that leaves
\* the byte at index p of the row: the bytes before p as they were, those
\* from p on one to the right, the size one more
InsertedAt(i, p) ==
    /\ E'.row[i].chars = SubSeq(E.row[i].chars, 1, p) \o <<c'>>
                         \o SubSeq(E.row[i].chars, p + 1, E.row[i].size)
    /\ E'.row[i].size = E.row[i].size + 1

\* C19: for every row, byte and at, below 0 and above the size included,
\* editorRowInsertChar inserts the byte at index min(max(at, 0), size)
C19_InsertClamped ==
    [][(pc = "rows" /\ E'.numrows = E.numrows)
       => LET size == E.row[E'.cy + 1].size
              at == E'.cx
          IN  InsertedAt(E'.cy + 1,
                         IF at < 0 THEN 0 ELSE IF at > size THEN size ELSE at)
      ]_vars

\* C19, amended: editorRowInsertChar inserts the byte at index at when
\* 0 <= at <= size, and at index size (the end of the row) when at < 0 or
\* at > size
C19_InsertAtOrAppend ==
    [][(pc = "rows" /\ E'.numrows = E.numrows)
       => LET size == E.row[E'.cy + 1].size
              at == E'.cx
          IN  InsertedAt(E'.cy + 1, IF at < 0 \/ at > size THEN size ELSE at)
      ]_vars

\* a byte inserted with at < 0 into a row that was not empty: it is the
\* last byte of the row
C19_Witness ==
    /\ pc = "rows"
    /\ E.cx < 0
    /\ E.cy < E.numrows
    /\ E.row[E.cy + 1].size = 3
    /\ E.row[E.cy + 1].chars = <<TAB, 97, c>>

\* the number of bytes of s a decoder needs that stops as soon as what it
\* has read is a recognized sequence or cannot become one: one byte that
\* is not ESC; after ESC a byte, and a further one only after [ or O; after
\* ESC [ and a digit of a recognized sequence (1 3 4 5 6 7 8) one more
NeededBytes(s) ==
    LET n == Len(s)
    IN  IF s[1] # ESC \/ n < 2 THEN 1
        ELSE IF s[2] \notin {91, 79} \/ n < 3 THEN 2
        ELSE IF s[2] = 91 /\ s[3] \in {49, 51, 52, 53, 54, 55, 56} /\ n >= 4
             THEN 4
             ELSE 3

\* C20: editorReadKey takes one byte when it is not ESC, and after ESC
\* stops reading as soon as the bytes read are a recognized sequence or
\* cannot be extended to one; every byte it did not need stays in the
\* input for the calls that follow
C20_LeavesUnneededBytes ==
    [][(pc = "keypress" /\ pending # <<>>)
       => pending' = SubSeq(pending, NeededBytes(pending) + 1, Len(pending))
      ]_vars

\* the number of line breaks in the text-row part of frame w: the bytes
\* between cursor-home and the reverse-video-on that opens the status bar
TextRowBreaks(w) ==
    LET s == Find(w, ReverseOn, 10)
    IN  Cardinality({i \in 10..(s - 2) : IsAt(w, CRLF, i)})

\* the status bar of frame w comes right after a line break
StatusBarOnNewLine(w) ==
    LET s == Find(w, ReverseOn, 10)
    IN  s >= 12 /\ IsAt(w, CRLF, s - 2)

\* C21: the text-row part of a frame holds exactly screenrows - 1 line
\* breaks, one after each row but the last, and the status bar follows the
\* last row without a line break
C21_BreaksBetweenRows ==
    (pc = "keypress" /\ Len(written) = 1 /\ E.screenrows >= 1)
    => (/\ TextRowBreaks(written[1]) = E.screenrows - 1
        /\ ~StatusBarOnNewLine(written[1]))

\* C21 as the code has it: the text-row part of a frame holds exactly
\* screenrows line breaks, one after each row, the last one drawn
\* included, and the status bar starts right after the last row's line
\* break; with no text row (screenrows <= 0) there is no line break and
\* the status bar comes right after cursor-home
C21_BreakAfterEachRow ==
    (pc = "keypress" /\ Len(written) = 1)
    => IF E.screenrows >= 1
       THEN /\ TextRowBreaks(written[1]) = E.screenrows
            /\ StatusBarOnNewLine(written[1])
       ELSE /\ TextRowBreaks(written[1]) = 0
            /\ IsAt(written[1], ReverseOn, 10)

\* a frame of several text rows, a row of the file and a filler row among
\* them
C21_Witness ==
    /\ pc = "keypress"
    /\ Len(written) = 1
    /\ E.screenrows >= 2
    /\ E.numrows >= 1 /\ E.numrows - E.rowoff < E.screenrows
    /\ TextRowBreaks(written[1]) = E.screenrows
    /\ StatusBarOnNewLine(written[1])

\* C22: no read() on the terminal input, by getCursorPosition or by
\* editorReadKey, happens before enableRawMode's tcsetattr of the raw
\* configuration succeeded: the first read is taken in raw mode, the key
\* decoder only ever runs in raw mode, and a process whose enableRawMode
\* failed ends without having read
C22_RawModeFirst ==
    /\ [][(~reads /\ reads') => termios = "raw"]_vars
    /\ [](pc = "keypress" => termios = "raw")
    /\ [](cause \in {"tcgetattr", "tcsetattr"} => ~reads)

\* the window size came from the cursor position report, read in raw
\* mode, and the loop has not been entered yet
C22_Witness ==
    /\ pc = "open"
    /\ reads
    /\ termios = "raw"

\* C23: while editorReadKey's first read brings no byte (it returns 0, or
\* -1 with EAGAIN) the call neither returns nor changes the editor: a step
\* taken with no byte in the input leaves the call where it is, with E
\* and everything but the input as they were, unless the read fails with
\* another error, which ends the process through die("read") with status
\* 1; and when the terminal goes on to deliver bytes, every call returns
\* a key (or has ended in that die)
C23_ReadKeyBlocks ==
    /\ [][(pc = "keypress" /\ pending = <<>>)
           => (\/ /\ pc' = "keypress"
                  /\ UNCHANGED <<E, c, status, cause, termios, written>>
               \/ /\ pc' = "exiting"
                  /\ cause' = "read" /\ status' = 1
                  /\ UNCHANGED <<E, c>>)
         ]_vars
    /\ [](cause = "read" => (status = 1 /\ pc \in {"exiting", "exited",
                                                  "killed"}))
    /\ ((pc = "keypress") ~> (c # NoKey \/ cause = "read"))

\* a call that began with no byte in the input (so that its first reads
\* brought none) has returned the key of a four-byte sequence
C23_Witness ==
    /\ pc = "refresh"
    /\ reads
    /\ c = PAGE_DOWN
    /\ pending = <<>>
    /\ cause = "none"

\* the keys editorProcessKeypress has a case for that does nothing
UnboundKeys == {CR, BACKSPACE, CTRL_KEY(104), DEL_KEY, CTRL_KEY(108), ESC}

\* C24: when the key read is Enter, Backspace, Ctrl-H, Delete, Ctrl-L or
\* Escape, editorProcessKeypress leaves numrows, every row (chars and
\* render), cx and cy as they were, and the loop goes on to the next
\* frame
C24_UnboundKeysChangeNothing ==
    [][(pc = "keypress" /\ c' \in UnboundKeys)
       => (/\ pc' = "refresh"
           /\ E'.numrows = E.numrows
           /\ E'.row = E.row
           /\ E'.cx = E.cx
           /\ E'.cy = E.cy)
      ]_vars

\* Backspace was the key read last, after a move of the cursor down, and
\* the next frame is about to be drawn
C24_Witness ==
    /\ pc = "refresh"
    /\ c = BACKSPACE
    /\ E.cy = 1
    /\ E.numrows = 3
    /\ pending = <<>>

\* the slice editorDrawRows takes of the row at filerow: it starts at
\* index coloff >= 0, its length is in 0..screencols, and it lies inside
\* the row's render
SliceInRow(e, filerow) ==
    LET rsize == e.row[filerow + 1].rsize
        len0 == rsize - e.coloff
        len1 == IF len0 < 0 THEN 0 ELSE len0
        len == IF len1 > e.screencols THEN e.screencols ELSE len1
    IN  /\ e.coloff >= 0
        /\ 0 <= len /\ len <= e.screencols
        /\ len > 0 => e.coloff + len <= rsize

\* C25: in a window with screenrows >= 1 and screencols >= 1, rowoff >= 0
\* and coloff >= 0 in every state, and after each editorScroll
\* rowoff <= numrows and the slice drawn of every row in the window
\* starts at a non-negative index inside the row
C25_OffsetsInRange ==
    (E.screenrows >= 1 /\ E.screencols >= 1)
    => /\ E.rowoff >= 0
       /\ E.coloff >= 0
       /\ pc = "keypress"
          => /\ E.rowoff <= E.numrows
             /\ \A y \in 0..(E.screenrows - 1) :
                   (y + E.rowoff < E.numrows) => SliceInRow(E, y + E.rowoff)

\* a frame drawn with the window scrolled as far down as it goes, to the
\* line past the last row, after it was scrolled to the right
C25_Witness ==
    /\ pc = "keypress"
    /\ E.screenrows >= 1 /\ E.screencols >= 1
    /\ E.numrows >= 1
    /\ E.rowoff = E.numrows
    /\ E.coloff = 0
    /\ \E i \in 1..E.numrows : E.row[i].rsize > E.screencols

=============================================================================
